---- MODULE Spec2Model ----
(***************************************************************************)
(* InvoiceFlow AI backend (src/main.py, src/schemas.py).                   *)
(*                                                                         *)
(* Text that the code inspects character by character (file names, paths,  *)
(* invoice numbers, vendor names, dates) is a sequence of one-character    *)
(* strings.  Enumerated text (status, tier, role) is a plain string.       *)
(* Optional[T] is a sequence of length at most one: None is <<>> and a     *)
(* present value v is <<v>>.  A float is a record [neg, whole, frac]: the  *)
(* sign, the integer part and the fractional digits without trailing       *)
(* zeros, so that two records are equal exactly when the floats are.       *)
(*                                                                         *)
(* The document store is taken to be connected and to answer every call;   *)
(* an ObjectId is the position of the document in its collection.          *)
(***************************************************************************)
EXTENDS Integers, Sequences, FiniteSets, TLC

VARIABLES users, invoices, files, last

vars == <<users, invoices, files, last>>

(***************************************************************************)
(* Bounds of the model.                                                    *)
(***************************************************************************)
MaxUsers == 3
MaxInvoices == 2
MaxNameLen == 2
\* the reading of the clock, in seconds since the epoch, during the requests
Now == 1700000000

(***************************************************************************)
(* Optional values.                                                        *)
(***************************************************************************)
None == <<>>
Some(v) == <<v>>
IsNone(o) == o = <<>>
Get(o) == o[1]

(***************************************************************************)
(* Python str methods used by mock_ai_extract.                             *)
(***************************************************************************)
LowerChars == <<"a","b","c","d","e","f","g","h","i","j","k","l","m",
                "n","o","p","q","r","s","t","u","v","w","x","y","z">>
UpperChars == <<"A","B","C","D","E","F","G","H","I","J","K","L","M",
                "N","O","P","Q","R","S","T","U","V","W","X","Y","Z">>
DigitChars == <<"0","1","2","3","4","5","6","7","8","9">>

Range(s) == {s[i] : i \in DOMAIN s}
IndexIn(tbl, c) == CHOOSE i \in DOMAIN tbl : tbl[i] = c

IsLetter(c) == c \in Range(LowerChars) \cup Range(UpperChars)
IsDigitChar(c) == c \in Range(DigitChars)
DigitVal(c) == IndexIn(DigitChars, c) - 1

ToUpper(c) == IF c \in Range(LowerChars) THEN UpperChars[IndexIn(LowerChars, c)] ELSE c
ToLower(c) == IF c \in Range(UpperChars) THEN LowerChars[IndexIn(UpperChars, c)] ELSE c

\* str.isdigit(): non-empty and every character a digit
IsDigit(s) == Len(s) > 0 /\ \A i \in DOMAIN s : IsDigitChar(s[i])
\* str.isalpha(): non-empty and every character a letter
IsAlpha(s) == Len(s) > 0 /\ \A i \in DOMAIN s : IsLetter(s[i])
\* str.capitalize(): first character upper-cased, the rest lower-cased
Capitalize(s) == [i \in DOMAIN s |-> IF i = 1 THEN ToUpper(s[i]) ELSE ToLower(s[i])]

\* str.replace(old, new) for one-character old and new
ReplaceAll(s, old, new) == [i \in DOMAIN s |-> IF s[i] = old THEN new ELSE s[i]]

\* str.replace(c, "", 1): the first occurrence of c removed
RemoveFirst(s, c) ==
    IF c \in Range(s)
    THEN LET k == CHOOSE i \in DOMAIN s : s[i] = c /\ \A j \in 1..(i-1) : s[j] # c
         IN  SubSeq(s, 1, k-1) \o SubSeq(s, k+1, Len(s))
    ELSE s

\* position of the last occurrence of c in s, 0 when there is none (rfind + 1)
LastIndex(s, c) ==
    IF c \in Range(s)
    THEN CHOOSE i \in DOMAIN s : s[i] = c /\ \A j \in (i+1)..Len(s) : s[j] # c
    ELSE 0

\* str.split(sep) for a one-character sep: empty pieces are kept
RECURSIVE Split(_, _)
Split(s, sep) ==
    IF sep \in Range(s)
    THEN LET k == CHOOSE i \in DOMAIN s : s[i] = sep /\ \A j \in 1..(i-1) : s[j] # sep
         IN  <<SubSeq(s, 1, k-1)>> \o Split(SubSeq(s, k+1, Len(s)), sep)
    ELSE <<s>>

\* os.path.basename: what follows the last "/"
BaseName(p) == SubSeq(p, LastIndex(p, "/") + 1, Len(p))

\* os.path.splitext(p)[0]: cut at the last dot, unless only dots precede it
\* in the last path component
SplitExtRoot(p) ==
    LET sepIndex == LastIndex(p, "/")
        dotIndex == LastIndex(p, ".")
    IN  IF dotIndex > sepIndex
           /\ \E i \in (sepIndex+1)..(dotIndex-1) : p[i] # "."
        THEN SubSeq(p, 1, dotIndex-1)
        ELSE p

\* int(s) for a string of digits; the empty string counts 0
RECURSIVE DigitsToNat(_)
DigitsToNat(s) ==
    IF Len(s) = 0 THEN 0
    ELSE 10 * DigitsToNat(SubSeq(s, 1, Len(s)-1)) + DigitVal(s[Len(s)])

\* str(n) for a natural number
RECURSIVE NatToDigits(_)
NatToDigits(n) ==
    IF n < 10 THEN <<DigitChars[n+1]>>
    ELSE Append(NatToDigits(n \div 10), DigitChars[(n % 10) + 1])

RECURSIVE StripTrailingZeros(_)
StripTrailingZeros(s) ==
    IF Len(s) > 0 /\ s[Len(s)] = "0" THEN StripTrailingZeros(SubSeq(s, 1, Len(s)-1))
    ELSE s

\* float(p) for p made of digits and at most one dot
ParseFloat(p) ==
    LET k == LastIndex(p, ".")
        w == IF k = 0 THEN p ELSE SubSeq(p, 1, k-1)
        f == IF k = 0 THEN <<>> ELSE SubSeq(p, k+1, Len(p))
    IN  [neg |-> FALSE, whole |-> DigitsToNat(w), frac |-> StripTrailingZeros(f)]

Float(n, w, f) == [neg |-> n, whole |-> w, frac |-> f]
\* x >= 0 on floats (-0.0 >= 0 holds)
NonNegative(x) == ~x.neg \/ (x.whole = 0 /\ x.frac = <<>>)

(***************************************************************************)
(* datetime.now() is the wall clock in whole seconds since the epoch; the  *)
(* calendar date is taken in UTC.                                          *)
(***************************************************************************)

Pad(s, n) == [i \in 1..(n - Len(s)) |-> "0"] \o s

\* datetime.now().strftime("%Y-%m-%d") for the clock reading ts
DateStr(ts) ==
    LET z   == (ts \div 86400) + 719468
        era == z \div 146097
        doe == z - era * 146097
        yoe == (doe - (doe \div 1460) + (doe \div 36524) - (doe \div 146096)) \div 365
        doy == doe - (365 * yoe + (yoe \div 4) - (yoe \div 100))
        mp  == (5 * doy + 2) \div 153
        d   == doy - ((153 * mp + 2) \div 5) + 1
        m   == IF mp < 10 THEN mp + 3 ELSE mp - 9
        y   == yoe + era * 400 + (IF m <= 2 THEN 1 ELSE 0)
    IN  Pad(NatToDigits(y), 4) \o <<"-">> \o Pad(NatToDigits(m), 2)
          \o <<"-">> \o Pad(NatToDigits(d), 2)

(***************************************************************************)
(* mock_ai_extract                                                         *)
(***************************************************************************)
UPLOAD_DIR == <<"u","p","l","o","a","d","s">>
DefaultVendor == <<"A","c","m","e"," ","C","o","r","p">>
DefaultAmount == Float(FALSE, 199, <<>>)
InvoiceNumberAt(ts) == <<"I","N","V","-">> \o NatToDigits(ts)

\* the tokens the loop runs over: base name, extension cut, "-" turned into
\* "_", split on "_"
Parts(file_path) == Split(ReplaceAll(SplitExtRoot(BaseName(file_path)), "-", "_"), "_")

\* one pass of the loop body over the token p
ExtractStep(acc, p) ==
    [acc EXCEPT
       !.total_amount = IF IsDigit(RemoveFirst(p, ".")) THEN ParseFloat(p) ELSE @,
       !.vendor_name  = IF Len(p) >= 3 /\ IsAlpha(p) THEN Capitalize(p) ELSE @,
       !.date         = IF Len(p) = 10 /\ p[5] = "-" /\ p[8] = "-" THEN p ELSE @]

RECURSIVE ExtractLoop(_, _)
ExtractLoop(acc, parts) ==
    IF Len(parts) = 0 THEN acc
    ELSE ExtractLoop(ExtractStep(acc, Head(parts)), Tail(parts))

\* tsNum and tsDate are the two clock readings the function takes
mock_ai_extract(file_path, tsNum, tsDate) ==
    ExtractLoop([vendor_name    |-> DefaultVendor,
                 invoice_number |-> InvoiceNumberAt(tsNum),
                 total_amount   |-> DefaultAmount,
                 date           |-> DateStr(tsDate)],
                Parts(file_path))

(***************************************************************************)
(* Requests.                                                               *)
(***************************************************************************)
\* values of the x-user-id header; get_current_user_id hands the header on
Owners == {<<"u","1">>, <<"u","2">>}
Callers == {None} \cup {Some(o) : o \in Owners}
get_current_user_id(x_user_id) == x_user_id

\* original names of uploaded files
NameReceipt == <<"r","e","c","e","i","p","t",".","p","d","f">>
\* names of the form <vendor>_<amount>_<YYYY-MM-DD>.<ext>
PatternName(t) == t.vendor \o <<"_">> \o t.amount \o <<"_">> \o t.date \o <<".">> \o t.ext
AcmeTokens == [vendor |-> <<"a","c","m","e">>,
               amount |-> <<"2","5","0",".","5","0">>,
               date   |-> <<"2","0","2","4","-","0","3","-","0","1">>,
               ext    |-> <<"p","d","f">>]
Patterns == {AcmeTokens}
NameAcme == PatternName(AcmeTokens)
NameChars == {"b", "7", ".", "_", "-"}
ShortNames == UNION {[1..n -> NameChars] : n \in 1..MaxNameLen}
\* the names uploaded while the whole invoice service is explored, and the
\* names the extraction is explored on
ServiceNames == {<<"b", ".", "b">>}
ExtractNames == {NameReceipt} \cup {PatternName(t) : t \in Patterns} \cup ShortNames

\* payload.invoice_id: the text of the ObjectId of document n (of no document
\* while fewer than n are stored), or text that is no ObjectId
WellFormedId(n) == [wf |-> TRUE, n |-> n]
MalformedId == [wf |-> FALSE, n |-> 0]
InvoiceIds == {MalformedId} \cup {WellFormedId(n) : n \in 1..MaxInvoices}

UpdateFields == {"invoice_number", "vendor_name", "date", "total_amount", "status"}
NoFields == [f \in UpdateFields |-> None]
AllFields == [invoice_number |-> Some(<<"X","-","1">>),
              vendor_name    |-> Some(<<"G","l","o","b","e","x">>),
              date           |-> Some(<<"2","0","2","5","-","0","1","-","3","1">>),
              total_amount   |-> Some(Float(FALSE, 12, <<"5">>)),
              status         |-> Some("Approved")]
NegativeAmount == [NoFields EXCEPT !.total_amount = Some(Float(TRUE, 5, <<>>))]
\* the optional fields of UpdateInvoiceRequest: none set, every field set, a
\* negative amount alone, a negative amount with a status that is none of
\* the three
Payloads ==
    {NoFields, AllFields, NegativeAmount, [NegativeAmount EXCEPT !.status = Some("Paid")]}

\* subscription_tier and role of a CreateUserRequest: left out, or any text
Tiers == {None, Some("Free"), Some("Pro"), Some("Gold")}
Roles == {None, Some("admin"), Some("root")}
\* CreateUserRequest: the defaults of the fields left out
CreateUserRequest(tier, role) ==
    [name |-> <<"n">>, email |-> <<"e">>,
     subscription_tier |-> IF IsNone(tier) THEN "Free" ELSE Get(tier),
     role |-> IF IsNone(role) THEN "customer" ELSE Get(role)]

(***************************************************************************)
(* schemas.py                                                              *)
(***************************************************************************)
StatusValues == {"Processing", "Needs Review", "Approved"}
\* User(...): the fields pydantic accepts
UserValid(u) ==
    /\ u.subscription_tier \in {"Free", "Pro"}
    /\ u.credits_remaining >= 0
    /\ u.role \in {"admin", "customer"}
\* Invoice(user_id, file_path, file_name, status): the other fields default
InvoiceSchema(user_id, file_path, file_name, status) ==
    [user_id |-> user_id, file_path |-> file_path, file_name |-> file_name,
     invoice_number |-> None, vendor_name |-> None, date |-> None,
     total_amount |-> None, status |-> status]

(***************************************************************************)
(* The document store (database.py and pymongo).                           *)
(***************************************************************************)
\* create_document: the collection with the document appended; its id is
\* the new length
create_document(coll, doc) == Append(coll, doc)
\* get_documents(collection, {"user_id": uid}): ids of the matching documents
\* in store order
RECURSIVE SelectIds(_, _, _)
SelectIds(coll, uid, i) ==
    IF i > Len(coll) THEN <<>>
    ELSE (IF coll[i].user_id = uid THEN <<i>> ELSE <<>>) \o SelectIds(coll, uid, i + 1)
get_documents(coll, uid) == SelectIds(coll, uid, 1)

\* update_one(filter, {"$set": fields}): the fields present overwrite; status
\* is kept as its text, the fields a document may lack as optional values
SetFields(doc, fields) ==
    [k \in DOMAIN doc |->
        IF k \in DOMAIN fields /\ ~IsNone(fields[k])
        THEN (IF k = "status" THEN Get(fields[k]) ELSE fields[k])
        ELSE doc[k]]

(***************************************************************************)
(* State.                                                                  *)
(*   users, invoices: the two collections, in insertion order              *)
(*   files: UPLOAD_DIR, the files in it as [path, content]; the content   *)
(*          is kept as its kind, uploaded bytes or an exported CSV         *)
(*   last:  the last request handled and the response to it               *)
(***************************************************************************)
Response(op, caller, target, code, body) ==
    [op |-> op, caller |-> caller, target |-> target, code |-> code, body |-> body]

Init ==
    /\ users = <<>>
    /\ invoices = <<>>
    /\ files = {}
    /\ last = Response("none", None, None, 0, <<>>)

Path(file_name) == UPLOAD_DIR \o <<"/">> \o file_name
\* open(path, "wb") and write: the file is created or replaced
WriteFile(fs, path, content) ==
    {f \in fs : f.path # path} \cup {[path |-> path, content |-> content]}

Unauthenticated(op, caller) ==
    /\ last' = Response(op, caller, None, 401, <<>>)
    /\ UNCHANGED <<users, invoices, files>>

(***************************************************************************)
(* POST /api/users                                                         *)
(***************************************************************************)
\* variant: the tier is not looked at
CreditsIgnoringTier(tier) == 50

Credits(tier) == IF tier = "Free" THEN 50 ELSE 1000

\* a User that fails validation is an unhandled error: nothing is inserted
create_user(tier, role) ==
    LET payload == CreateUserRequest(tier, role)
        user == [name |-> payload.name, email |-> payload.email,
                 subscription_tier |-> payload.subscription_tier,
                 credits_remaining |-> Credits(payload.subscription_tier),
                 role |-> payload.role]
        request == Some([tier |-> tier, role |-> role])
    IN  IF UserValid(user)
        THEN /\ Len(users) < MaxUsers
             /\ users' = create_document(users, user)
             /\ last' = Response("create_user", None, request, 200, [id |-> Len(users')])
             /\ UNCHANGED <<invoices, files>>
        ELSE /\ last' = Response("create_user", None, request, 500, <<>>)
             /\ UNCHANGED <<users, invoices, files>>

(***************************************************************************)
(* POST /api/invoices/upload                                               *)
(***************************************************************************)
\* variant: the patch also stores the status the response reports
PatchFieldsWithStatus(extracted) ==
    [k \in DOMAIN extracted \cup {"status"} |->
        IF k = "status" THEN Some("Needs Review") ELSE Some(extracted[k])]

\* the "$set" document of the patch after extraction
PatchFields(extracted) == [k \in DOMAIN extracted |-> Some(extracted[k])]

\* the patch is taken to succeed (its failure is swallowed by the handler)
upload_invoice(current_user, filename) ==
    IF IsNone(current_user) THEN Unauthenticated("upload", current_user)
    ELSE LET file_name == NatToDigits(Now) \o <<"_">> \o filename
             file_path == Path(file_name)
             inv == InvoiceSchema(Get(current_user), file_path, filename, "Processing")
             inserted == create_document(invoices, inv)
             invoice_id == Len(inserted)
             extracted == mock_ai_extract(file_path, Now, Now)
         IN  /\ Len(invoices) < MaxInvoices
             /\ files' = WriteFile(files, file_path, "bytes")
             /\ invoices' = [inserted EXCEPT ![invoice_id] =
                                SetFields(@, PatchFields(extracted))]
             /\ last' = Response("upload", current_user, Some(WellFormedId(invoice_id)), 200,
                                 [id |-> invoice_id,
                                  vendor_name |-> extracted.vendor_name,
                                  invoice_number |-> extracted.invoice_number,
                                  total_amount |-> extracted.total_amount,
                                  date |-> extracted.date,
                                  status |-> "Needs Review"])
             /\ UNCHANGED users

(***************************************************************************)
(* GET /api/invoices                                                       *)
(***************************************************************************)
Summary(coll, i) ==
    [id |-> i, file_name |-> coll[i].file_name,
     invoice_number |-> coll[i].invoice_number, vendor_name |-> coll[i].vendor_name,
     date |-> coll[i].date, total_amount |-> coll[i].total_amount,
     status |-> coll[i].status]

\* variant: the listing is not filtered by owner
ListFilterNone(current_user) == [i \in 1..Len(invoices) |-> i]

ListFilter(current_user) == get_documents(invoices, Get(current_user))

list_invoices(current_user) ==
    IF IsNone(current_user) THEN Unauthenticated("list", current_user)
    ELSE LET docs == ListFilter(current_user)
         IN  /\ last' = Response("list", current_user, None, 200,
                                 [j \in DOMAIN docs |-> Summary(invoices, docs[j])])
             /\ UNCHANGED <<users, invoices, files>>

(***************************************************************************)
(* POST /api/invoices/update                                               *)
(***************************************************************************)
\* variant: the filter is on the id alone
UpdateFilterIdOnly(coll, invoice_id, current_user) ==
    {i \in DOMAIN coll : i = invoice_id.n}

\* the filter {"_id": ObjectId(invoice_id), "user_id": current_user}
UpdateFilter(coll, invoice_id, current_user) ==
    {i \in DOMAIN coll : i = invoice_id.n /\ coll[i].user_id = Get(current_user)}

\* what the except clause makes of an HTTPException raised inside the try
UpdateErrorCode(raised) == 400

\* emptySetRejected: whether the store refuses a "$set" of no fields
update_invoice(current_user, invoice_id, payload, emptySetRejected) ==
    IF IsNone(current_user) THEN Unauthenticated("update", current_user)
    ELSE LET matched == UpdateFilter(invoices, invoice_id, current_user)
             fail(code) == /\ last' = Response("update", current_user, Some(invoice_id), code, <<>>)
                           /\ UNCHANGED <<users, invoices, files>>
         IN  IF ~invoice_id.wf THEN fail(400)
             ELSE IF payload = NoFields /\ emptySetRejected THEN fail(400)
             ELSE IF matched = {} THEN fail(UpdateErrorCode(404))
             ELSE /\ invoices' = [i \in DOMAIN invoices |->
                                    IF i \in matched THEN SetFields(invoices[i], payload)
                                    ELSE invoices[i]]
                  /\ last' = Response("update", current_user, Some(invoice_id), 200, [ok |-> TRUE])
                  /\ UNCHANGED <<users, files>>

(***************************************************************************)
(* GET /api/invoices/export                                                *)
(***************************************************************************)
CsvRow(d) == <<d.invoice_number, d.vendor_name, d.date, d.total_amount, d.status, d.file_name>>

\* variant: the identity is not checked; without the header the text
\* "None" goes into the file name and no document matches
ExportUnchecked(current_user) ==
    LET uid == IF IsNone(current_user) THEN <<"N","o","n","e">> ELSE Get(current_user)
        docs == IF IsNone(current_user) THEN <<>> ELSE get_documents(invoices, uid)
        rows == [j \in DOMAIN docs |-> CsvRow(invoices[docs[j]])]
        filename == <<"i","n","v","o","i","c","e","s","_">> \o uid \o <<".","c","s","v">>
    IN  /\ files' = WriteFile(files, Path(filename), "csv")
        /\ last' = Response("export", current_user, None, 200,
                            [filename |-> filename, rows |-> rows])
        /\ UNCHANGED <<users, invoices>>

export_invoices_csv(current_user) ==
    IF IsNone(current_user) THEN Unauthenticated("export", current_user)
    ELSE LET docs == get_documents(invoices, Get(current_user))
             rows == [j \in DOMAIN docs |-> CsvRow(invoices[docs[j]])]
             filename == <<"i","n","v","o","i","c","e","s","_">> \o Get(current_user)
                           \o <<".","c","s","v">>
         IN  /\ files' = WriteFile(files, Path(filename), "csv")
             /\ last' = Response("export", current_user, None, 200,
                                 [filename |-> filename, rows |-> rows])
             /\ UNCHANGED <<users, invoices>>

(***************************************************************************)
(* The service: any request at any time.  Requests are handled one at a    *)
(* time.  create_user reads and writes only the user collection and the    *)
(* invoice handlers never read it, so the two halves are explored apart:   *)
(* SpecUsers, SpecInvoices.  SpecExtract explores uploads alone, over the  *)
(* larger set of file names.                                               *)
(***************************************************************************)
CreateUser == \E tier \in Tiers, role \in Roles : create_user(tier, role)
UploadFrom(names) ==
    \E c \in Callers, n \in names : upload_invoice(get_current_user_id(c), n)
UploadInvoice == UploadFrom(ServiceNames)
UploadAnyName == UploadFrom(ExtractNames)
ListInvoices == \E c \in Callers : list_invoices(get_current_user_id(c))
UpdateInvoice ==
    \E c \in Callers, id \in InvoiceIds, p \in Payloads, r \in BOOLEAN :
        (r => p = NoFields) /\ update_invoice(get_current_user_id(c), id, p, r)
ExportInvoices == \E c \in Callers : export_invoices_csv(get_current_user_id(c))

NextInvoices == UploadInvoice \/ ListInvoices \/ UpdateInvoice \/ ExportInvoices
Next == CreateUser \/ NextInvoices

Spec == Init /\ [][Next]_vars
SpecInvoices == Init /\ [][NextInvoices]_vars
SpecUsers == Init /\ [][CreateUser]_vars
SpecExtract == Init /\ [][UploadAnyName]_vars

(***************************************************************************)
(* Properties.                                                             *)
(***************************************************************************)
Ids == DOMAIN invoices
Authenticated == ~IsNone(last.caller)
\* the original name of the file of the last upload
UploadedName == invoices[last.body.id].file_name
UploadOk == last.op = "upload" /\ last.code = 200

\* C1: an update by a present owner with a well-formed invoice id that
\* matches no document (no such id, or another owner's invoice) is answered
\* NotFound (404), not the BadRequest (400) of a malformed id.
C1_NotFoundOnNoMatch ==
    (/\ last.op = "update"
     /\ Authenticated
     /\ Get(last.target).wf
     /\ UpdateFilter(invoices, Get(last.target), last.caller) = {})
    => last.code = 404

\* C2: every persisted invoice has one of the three statuses.
C2_StatusEnumerated == \A i \in Ids : invoices[i].status \in StatusValues

\* C3: every persisted invoice with a total amount has a non-negative one.
C3_AmountNonNegative ==
    \A i \in Ids : ~IsNone(invoices[i].total_amount) => NonNegative(Get(invoices[i].total_amount))

\* C4: uploading <vendor>_<amount>_<YYYY-MM-DD>.<ext> returns the capitalized
\* vendor token, the amount token as a number and the date token verbatim
\* (acme_250.50_2024-03-01.pdf: "Acme", 250.50, "2024-03-01").
C4_PatternRoundTrip ==
    \A t \in Patterns :
        (UploadOk /\ UploadedName = PatternName(t))
        => /\ last.body.vendor_name = Capitalize(t.vendor)
           /\ last.body.total_amount = ParseFloat(t.amount)
           /\ last.body.date = t.date

\* whether a name on its own gives the loop no amount, vendor or date token
SuppliesNoToken(name) ==
    LET defaults == [vendor_name |-> 0, invoice_number |-> 0, total_amount |-> 0, date |-> 0]
    IN  ExtractLoop(defaults, Parts(name)) = defaults

\* C5: uploading receipt.pdf, or any name that supplies no amount, vendor or
\* date token, returns the defaults: vendor "Acme Corp", amount 199.0, the
\* current date and an invoice number made of the current timestamp.
C5_DefaultsReturned ==
    (UploadOk /\ (UploadedName = NameReceipt \/ SuppliesNoToken(UploadedName)))
    => /\ last.body.vendor_name = DefaultVendor
       /\ last.body.total_amount = DefaultAmount
       /\ last.body.date = DateStr(Now)
       /\ last.body.invoice_number = InvoiceNumberAt(Now)

\* C6: an invoice already stored changes in a step only when that step is a
\* successful update whose caller is the invoice's owner; no update by
\* another identity changes any of its fields.
C6_OnlyOwnerUpdates ==
    [][\A i \in Ids :
         invoices'[i] # invoices[i]
         => /\ last'.op = "update"
            /\ last'.code = 200
            /\ last'.caller = Some(invoices[i].user_id)
            /\ invoices'[i].user_id = invoices[i].user_id]_vars

\* an update by one identity was aimed at an invoice of another
C6_Witness ==
    /\ last.op = "update"
    /\ Authenticated
    /\ \E i \in Ids : /\ last.target = Some(WellFormedId(i))
                      /\ invoices[i].user_id # Get(last.caller)
                      /\ \E j \in Ids : invoices[j].user_id = Get(last.caller)

\* C7: the listing holds exactly the caller's invoices, each once and as
\* stored: none of another owner, none of the caller's left out.
C7_ListExactlyOwn ==
    (last.op = "list" /\ last.code = 200)
    => /\ {last.body[j].id : j \in DOMAIN last.body}
            = {i \in Ids : invoices[i].user_id = Get(last.caller)}
       /\ \A j, k \in DOMAIN last.body : last.body[j].id = last.body[k].id => j = k
       /\ \A j \in DOMAIN last.body : last.body[j] = Summary(invoices, last.body[j].id)

\* a non-empty listing while another owner has an invoice too
C7_Witness ==
    /\ last.op = "list"
    /\ last.code = 200
    /\ Len(last.body) > 0
    /\ \E i \in Ids : invoices[i].user_id # Get(last.caller)

ProtectedOps == {"list", "upload", "update", "export"}

\* C8: list, upload, update and export without the identity header answer
\* Unauthenticated (401) and leave the invoices and the files as they were.
C8_UnauthenticatedNoEffect ==
    [][(last'.op \in ProtectedOps /\ IsNone(last'.caller))
       => /\ last'.code = 401
          /\ invoices' = invoices
          /\ files' = files]_vars

\* every protected operation was refused for want of the header, with an
\* invoice and a file there to be left alone
C8_Witness ==
    /\ last.op = "export"
    /\ IsNone(last.caller)
    /\ last.code = 401
    /\ invoices # <<>>
    /\ files # {}

\* the answer of a successful upload against the invoice it stored
C9_UploadResponse ==
    UploadOk => /\ last.body.status = "Needs Review"
                /\ invoices[last.body.id].status = "Processing"
C9_ListReportsStored ==
    (last.op = "list" /\ last.code = 200)
    => \A j \in DOMAIN last.body : last.body[j].status = invoices[last.body[j].id].status
C9_StaysProcessing ==
    \A i \in Ids :
        (invoices[i].status = "Processing" /\ invoices'[i].status # "Processing")
        => \E id \in InvoiceIds, p \in Payloads, r \in BOOLEAN :
              /\ ~IsNone(p.status)
              /\ id = WellFormedId(i)
              /\ update_invoice(Some(invoices[i].user_id), id, p, r)

\* C9: a successful upload answers "Needs Review" while the stored invoice
\* is "Processing"; a listing reports the stored status; and a stored
\* "Processing" changes only in a successful update by the owner whose
\* payload sets status.
C9_StatusDrift ==
    /\ [](C9_UploadResponse /\ C9_ListReportsStored)
    /\ [][C9_StaysProcessing]_vars

\* a listing reports "Processing" for an uploaded invoice
C9_Witness ==
    /\ last.op = "list"
    /\ last.code = 200
    /\ \E j \in DOMAIN last.body : last.body[j].status = "Processing"

CreateRequest == Get(last.target)
AcceptedTiers == {None, Some("Free"), Some("Pro")}
AcceptedRoles == {None, Some("admin"), Some("customer")}

\* C10 as stated: with tier "Free" or left out the inserted user has 50
\* credits, with any other tier value it has 1000, and its id is returned.
C10_AnyOtherTier ==
    (last.op = "create_user" /\ CreateRequest.role \in AcceptedRoles)
    => /\ last.code = 200
       /\ users[last.body.id].credits_remaining
            = IF CreateRequest.tier \in {None, Some("Free")} THEN 50 ELSE 1000

\* the stored users and the answer to the last create_user
C10_StoredAndAnswered ==
    /\ \A i \in DOMAIN users :
          /\ users[i].subscription_tier \in {"Free", "Pro"}
          /\ users[i].credits_remaining = IF users[i].subscription_tier = "Free" THEN 50 ELSE 1000
    /\ (last.op = "create_user" /\ CreateRequest.role \in AcceptedRoles)
       => IF CreateRequest.tier \in AcceptedTiers
          THEN /\ last.code = 200
               /\ last.body.id = Len(users)
               /\ users[last.body.id].subscription_tier
                    = (IF CreateRequest.tier = Some("Pro") THEN "Pro" ELSE "Free")
          ELSE last.code # 200

\* C10 amended: with tier "Free" or left out the inserted user has 50
\* credits and with tier "Pro" it has 1000, and its id is returned; any
\* other tier value is refused and inserts nothing.
C10_AcceptedTiers ==
    /\ []C10_StoredAndAnswered
    /\ [][(last'.op = "create_user" /\ last'.code # 200) => users' = users]_vars

\* users of both tiers are stored, the last one created with tier "Pro"
C10_Witness ==
    /\ last.op = "create_user"
    /\ last.code = 200
    /\ CreateRequest.tier = Some("Pro")
    /\ users[last.body.id].credits_remaining = 1000
    /\ \E i \in DOMAIN users : users[i].credits_remaining = 50
====
